---- MODULE Spec2Model ----
(***************************************************************************)
(* State-machine model of the PHP_CBF Sublime Text plugin (src/phpcbf.py). *)
(*                                                                         *)
(* One window with the views of Views.  Texts are sequences of one-        *)
(* character strings.  The host (Sublime Text), the formatter process and  *)
(* the linter integration are the environment: their answers are inputs    *)
(* drawn with \E.  Callbacks handed to sublime.set_timeout and the         *)
(* save-completion events of the host are pending work items that the      *)
(* main context runs one at a time; the formatter thread is the only step  *)
(* that runs off the main context.                                         *)
(*                                                                         *)
(* Not modelled (no state of the model depends on it): the selection and   *)
(* caret of a view (phpcbf.py 386-400), the scratch mark (384) and the    *)
(* text of stderr.                                                         *)
(***************************************************************************)
EXTENDS Integers, Sequences, FiniteSets, TLC

\* ------------------------------------------------------------------ bounds
\* Number of formatter runs a behaviour of Spec may start.
MaxRuns == 1
\* Number of formatter runs a behaviour of SpecOverlap may start.
MaxOverlap == 2
\* Exit codes the formatter process may return are 0..MaxExit.
MaxExit == 3
\* Save-completion events that may be pending for one view.
MaxSaveQ == 2

\* ------------------------------------------------------- program constants
SUCCESS == 0
FIXES_APPLIED == 1
ERROR == 2
\* n, the context-line count of difflib.unified_diff (its default).
DiffContext == 3

None == "None"

Views == {"v1", "v2"}

\* Texts a buffer or the formatter's stdout may hold.
BufferTexts == { <<"a">>, <<"a", "\n">>, <<"b", "\n">> }

ExitCodes == 0..MaxExit

\* ------------------------------------------------------------ DiffProcessor
\* The line boundaries of str.splitlines that the texts of the model use.
LineBreaks == {"\n", "\r", "\f"}

Min(S) == CHOOSE x \in S : \A y \in S : x <= y

Max(S) == CHOOSE x \in S : \A y \in S : x >= y

\* Position of the first line break of s at or after i, Len(s)+1 if none.
NextBreak(s, i) ==
    Min({j \in i..Len(s) : s[j] \in LineBreaks} \cup {Len(s) + 1})

\* Where the line after the break at j starts: "\r\n" is one break.
AfterBreak(s, j) ==
    IF j < Len(s) /\ s[j] = "\r" /\ s[j + 1] = "\n" THEN j + 2 ELSE j + 1

RECURSIVE SplitFrom(_, _)
\* The line s[i..j-1] and the lines after its break at j.
LineAndRest(s, i, j) ==
    IF j > Len(s) THEN <<SubSeq(s, i, j - 1)>>
    ELSE <<SubSeq(s, i, j - 1)>> \o SplitFrom(s, AfterBreak(s, j))

\* str.splitlines() of s from position i on (keepends=False).
SplitFrom(s, i) ==
    IF i > Len(s) THEN << >>
    ELSE LineAndRest(s, i, NextBreak(s, i))

splitlines(s) == SplitFrom(s, 1)

\* SequenceMatcher.find_longest_match without junk: the blocks <<i, j, k>>
\* (0-based, k >= 1) with a[i:i+k] = b[j:j+k] inside a[alo:ahi], b[blo:bhi].
Matches(a, b, alo, ahi, blo, bhi) ==
    { m \in (alo..(ahi - 1)) \X (blo..(bhi - 1)) \X (1..(ahi - alo)) :
        /\ m[1] + m[3] <= ahi
        /\ m[2] + m[3] <= bhi
        /\ \A d \in 0..(m[3] - 1) : a[m[1] + d + 1] = b[m[2] + d + 1] }

\* Of the blocks M, the longest; of those the earliest in a; of those the
\* earliest in b.
EarliestIn(Mk, i) == <<i, Min({m[2] : m \in {x \in Mk : x[1] = i}}), (CHOOSE m \in Mk : TRUE)[3]>>

LongestOf(M, k) == EarliestIn({m \in M : m[3] = k}, Min({m[1] : m \in {x \in M : x[3] = k}}))

find_longest_match(a, b, alo, ahi, blo, bhi) ==
    LongestOf(Matches(a, b, alo, ahi, blo, bhi),
              Max({m[3] : m \in Matches(a, b, alo, ahi, blo, bhi)}))

RECURSIVE MatchingBlocks(_, _, _, _, _, _)
\* The blocks left and right of the longest block m, around it.
BlocksAround(a, b, alo, ahi, blo, bhi, m) ==
    MatchingBlocks(a, b, alo, m[1], blo, m[2])
      \o <<m>>
      \o MatchingBlocks(a, b, m[1] + m[3], ahi, m[2] + m[3], bhi)

\* SequenceMatcher.get_matching_blocks without its closing sentinel.
MatchingBlocks(a, b, alo, ahi, blo, bhi) ==
    IF Matches(a, b, alo, ahi, blo, bhi) = {} THEN << >>
    ELSE BlocksAround(a, b, alo, ahi, blo, bhi,
                      find_longest_match(a, b, alo, ahi, blo, bhi))

\* The opcode SequenceMatcher.get_opcodes puts before the block <<ai, bj, _>>
\* when it stands at (i, j).
ChangeBefore(i, j, ai, bj) ==
    IF i < ai /\ j < bj THEN << <<"replace", i, ai, j, bj>> >>
    ELSE IF i < ai THEN << <<"delete", i, ai, j, bj>> >>
    ELSE IF j < bj THEN << <<"insert", i, ai, j, bj>> >>
    ELSE << >>

\* The "equal" opcode of the block <<ai, bj, size>>.
EqualOf(ai, bj, size) ==
    IF size > 0 THEN << <<"equal", ai, ai + size, bj, bj + size>> >> ELSE << >>

RECURSIVE OpcodesFrom(_, _, _, _)
\* SequenceMatcher.get_opcodes: walk the blocks (the sentinel <<la, lb, 0>>
\* closes them) from position (i, j).
OpcodesFrom(blocks, n, i, j) ==
    IF n > Len(blocks) THEN << >>
    ELSE ChangeBefore(i, j, blocks[n][1], blocks[n][2])
           \o EqualOf(blocks[n][1], blocks[n][2], blocks[n][3])
           \o OpcodesFrom(blocks, n + 1, blocks[n][1] + blocks[n][3],
                          blocks[n][2] + blocks[n][3])

get_opcodes(a, b) ==
    OpcodesFrom(MatchingBlocks(a, b, 0, Len(a), 0, Len(b))
                  \o << <<Len(a), Len(b), 0>> >>, 1, 0, 0)

\* get_grouped_opcodes: no opcodes stand for one "equal" opcode.
OrEqual(codes) == IF codes = << >> THEN << <<"equal", 0, 1, 0, 1>> >> ELSE codes

\* get_grouped_opcodes: a leading "equal" opcode keeps its last n lines.
TrimFirst(codes) ==
    IF codes[1][1] = "equal"
    THEN [codes EXCEPT ![1] =
             <<"equal", Max({codes[1][2], codes[1][3] - DiffContext}), codes[1][3],
               Max({codes[1][4], codes[1][5] - DiffContext}), codes[1][5]>>]
    ELSE codes

\* get_grouped_opcodes: a trailing "equal" opcode keeps its first n lines.
TrimLast(codes, l) ==
    IF l[1] = "equal"
    THEN [codes EXCEPT ![Len(codes)] =
             <<"equal", l[2], Min({l[3], l[2] + DiffContext}),
               l[4], Min({l[5], l[4] + DiffContext})>>]
    ELSE codes

\* get_grouped_opcodes: a group of one "equal" opcode is no group.
GroupsOf(codes) ==
    IF Len(codes) = 1 /\ codes[1][1] = "equal" THEN << >> ELSE <<codes>>

TrimBoth(codes) == TrimLast(TrimFirst(codes), TrimFirst(codes)[Len(codes)])

\* SequenceMatcher.get_grouped_opcodes(n).  Texts of fewer than 2n+1 lines
\* never split into several groups.
get_grouped_opcodes(a, b) == GroupsOf(TrimBoth(OrEqual(get_opcodes(a, b))))

\* difflib._format_range_unified
format_range_unified(start, stop) ==
    LET length == stop - start
    IN  IF length = 1 THEN <<start + 1>>
        ELSE IF length = 0 THEN <<start, 0>>
        ELSE <<start + 1, length>>

Prefixed(p, lines) == [n \in 1..Len(lines) |-> <<p, lines[n]>>]

\* The lines unified_diff yields for one opcode.
OpLines(a, b, op) ==
    IF op[1] = "equal" THEN Prefixed(" ", SubSeq(a, op[2] + 1, op[3]))
    ELSE (IF op[1] \in {"replace", "delete"}
          THEN Prefixed("-", SubSeq(a, op[2] + 1, op[3])) ELSE << >>)
         \o (IF op[1] \in {"replace", "insert"}
             THEN Prefixed("+", SubSeq(b, op[4] + 1, op[5])) ELSE << >>)

RECURSIVE GroupLines(_, _, _, _)
\* The body lines unified_diff yields for the opcodes of one group.
GroupLines(a, b, group, n) ==
    IF n > Len(group) THEN << >>
    ELSE OpLines(a, b, group[n]) \o GroupLines(a, b, group, n + 1)

\* The header and the lines of one group.
Hunk(a, b, g) ==
    << <<"---", "Original">>, <<"+++", "Fixed">>,
       <<"@@", format_range_unified(g[1][2], g[Len(g)][3]),
               format_range_unified(g[1][4], g[Len(g)][5])>> >>
      \o GroupLines(a, b, g, 1)

\* The diff of the groups.
DiffOf(a, b, groups) == IF groups = << >> THEN << >> ELSE Hunk(a, b, groups[1])

\* difflib.unified_diff(a, b, fromfile='Original', tofile='Fixed', lineterm='')
unified_diff(a, b) == DiffOf(a, b, get_grouped_opcodes(a, b))

\* The absent diff: create_diff's None.  '\n'.join(diff) is the empty string
\* exactly when unified_diff yields no line, every line having a prefix.
NoDiff == << >>

\* DiffProcessor.create_diff
create_diff(original, fixed) ==
    unified_diff(splitlines(original), splitlines(fixed))

\* create_diff of every two texts of the model, computed once.
Diffs == [o \in BufferTexts |-> [f \in BufferTexts |-> create_diff(o, f)]]

\* -------------------------------------------------------------------- state
VARIABLES
    content,          \* view -> text of its buffer
    is_saving,        \* view -> the 'phpcbf_is_saving' entry of view.settings()
    php_cbf_config,   \* view -> the 'PHP_CBF' entry of view.settings()
    file_name,        \* view -> view.file_name()
    active_view,      \* window.active_view(), or None
    global_settings,  \* the loaded PHP_CBF.sublime-settings
    runs,             \* run id -> the run started by one process_file call
    animator,         \* processor.animator: [index, is_running]
    animate_timers,   \* number of _animate callbacks waiting in set_timeout
    status,           \* the text last given to sublime.status_message
    console,          \* kinds of error text printed to the console
    save_events,      \* view -> saves whose on_post_save is still to come
    uncaught,         \* an exception left a callback of the plugin
    thread_reads,     \* host state read from inside the formatter thread
    window_views,     \* the views of the window
    folders,          \* window.folders(): the project folders, in window order
    os_name,          \* os.name of the host
    started_by        \* run id -> what called process_file: "command", or
                      \* the view whose save on_post_save was handling

vars == <<content, is_saving, php_cbf_config, file_name, active_view,
          global_settings, runs, animator, animate_timers, status, console,
          save_events, uncaught, thread_reads, window_views, folders, os_name, started_by>>

\* File names the views of the model may carry: /p/a.php, /p/.h.php, /p/A.PHP.
PhpFile == <<"/", "p", "/", "a", ".", "p", "h", "p">>

FileNames ==
    { PhpFile,
      <<"/", "p", "/", ".", "h", ".", "p", "h", "p">>,
      <<"/", "p", "/", "A", ".", "P", "H", "P">> }

\* A view-specific 'PHP_CBF' entry: no key, or fix_on_save with a value.
NoConfig == [k \in {} |-> TRUE]

ViewConfigs == {NoConfig} \cup { [k \in {"fix_on_save"} |-> b] : b \in BOOLEAN }

ANIMATIONS ==
    [windows |-> <<"|", "/", "-", "\\">>,
     linux |-> <<"|", "/", "-", "\\">>,
     osx |-> <<"\\u25d0", "\\u25d3", "\\u25d1", "\\u25d2">>]

\* sublime.platform() of the host the model runs on.
platform == "linux"

\* _animate: ANIMATIONS.get(platform, ANIMATIONS['linux'])
animation_chars ==
    IF platform \in DOMAIN ANIMATIONS THEN ANIMATIONS[platform]
    ELSE ANIMATIONS["linux"]

RunningMessage == "Running PHP CBF"

NoChangesStatus == <<"PHP CBF: No changes needed">>

ErrorStatus == <<"PHP CBF: Error, check console for details">>

EmptyStatus == << >>

\* A run before process_file has started it.
IdleRun ==
    [phase |-> "idle", content |-> << >>, file_path |-> << >>, args |-> << >>,
     stdout |-> << >>, exit_code |-> 0, error |-> "", view |-> None,
     view0 |-> None, mutations |-> 0, callbacks |-> 0, animated |-> FALSE,
     outcome |-> "none"]

\* The run record once its last callback has returned: what the callbacks
\* held (snapshot, result) is gone, what the run did stays.
Finished(run, outcome) ==
    [run EXCEPT !.phase = "done", !.outcome = outcome, !.content = << >>,
                !.file_path = << >>, !.stdout = << >>, !.exit_code = 0,
                !.error = "", !.view = None]

InFlight(r) == runs[r].phase \in {"thread", "results", "error", "notify"}

IdleRuns == {r \in DOMAIN runs : runs[r].phase = "idle"}

\* ------------------------------------------------------- strings of the code
Placeholder == <<"$", "{", "f", "o", "l", "d", "e", "r", "}">>

StandardFlag == <<"-", "-", "s", "t", "a", "n", "d", "a", "r", "d", "=">>

StdinFlag == <<"-">>

PhpToken == <<"p", "h", "p">>

PSR2 == <<"P", "S", "R", "2">>

DefaultKey == <<"_", "d", "e", "f", "a", "u", "l", "t">>

\* A value of the phpcs_standard setting: a string, a mapping from folder
\* names to strings, or a value of another type.
NoDict == [k \in {} |-> << >>]

Str(s) == [type |-> "str", str |-> s, dict |-> NoDict]

Dict(d) == [type |-> "dict", str |-> << >>, dict |-> d]

Other == [type |-> "other", str |-> << >>, dict |-> NoDict]

\* -------------------------------------------------------- inputs of the model
XApp == <<"/", "x", "/", "a", "p", "p">>

XLib == <<"/", "x", "/", "l", "i", "b">>

\* window.folders() of the windows of the model.
FolderLists == { << >>, <<XApp>>, <<XLib>>, <<XLib, XApp>> }

OsNames == {"posix", "nt"}

PSR1 == <<"P", "S", "R", "1">>

\* Values of the settings the command is built from.
PhpPaths == { <<"p", "8">> }

FormatterPaths == { <<"c", "b", "f">>, Placeholder \o <<"/", "c", "b", "f">> }

Standards ==
    { Str(<< >>), Str(PSR1), Str(Placeholder \o <<"/", "r">>),
      Dict(NoDict),
      Dict([k \in {<<"a", "p", "p">>} |-> PSR1]),
      Dict([k \in {<<"a", "p", "p">>, DefaultKey} |->
               IF k = DefaultKey THEN PSR2 ELSE PSR1]),
      Other }

ExtraArgs == { << >>, << <<"-", "q">> >>, << <<"-", "q">>, <<"-", "v">> >> }

\* The settings that hold key with one of values, or do not hold it.
Setting(key, values) == {NoConfig} \cup { [k \in {key} |-> v] : v \in values }

\* Settings files as the user may write them.
BuilderSettings ==
    { a @@ b @@ c @@ d @@ e :
        a \in Setting("php_path", PhpPaths),
        b \in Setting("phpcbf_path", FormatterPaths),
        c \in Setting("phpcs_standard", Standards),
        d \in Setting("additional_args", ExtraArgs),
        e \in Setting("fix_on_save", {TRUE}) }

\* The plugin just loaded in a window that shows `views` and has one of
\* folderLists as project folders, with room for n runs, view-specific
\* settings among configs, a settings file among globals and files named
\* among names: nothing is running, no flag is set, no save is pending.
LoadedIn(views, n, configs, globals, folderLists, osNames, names) ==
    /\ window_views = views
    /\ content = [v \in Views |-> <<"a">>]
    /\ is_saving = [v \in Views |-> FALSE]
    /\ php_cbf_config \in [Views -> configs]
    /\ \A v \in Views \ views : DOMAIN php_cbf_config[v] = {}
    /\ file_name \in [Views -> names]
    /\ \A v \in Views \ views : file_name[v] = PhpFile
    /\ active_view \in views
    /\ global_settings \in globals
    /\ runs = [r \in 1..n |-> IdleRun]
    /\ animator = [index |-> 0, is_running |-> FALSE]
    /\ animate_timers = 0
    /\ status = EmptyStatus
    /\ console = {}
    /\ save_events = [v \in Views |-> << >>]
    /\ uncaught = FALSE
    /\ thread_reads = {}
    /\ folders \in folderLists
    /\ os_name \in osNames
    /\ started_by = [r \in 1..n |-> "none"]

\* The same in a window with one project folder on a POSIX host, the
\* settings file holding fix_on_save alone.
Loaded(views, n, configs) ==
    LoadedIn(views, n, configs, [{"fix_on_save"} -> BOOLEAN], {<<XApp>>},
             {"posix"}, {PhpFile})

Init == Loaded({"v1"}, MaxRuns, ViewConfigs)

\* Two runs may overlap; no view overrides the global settings.
InitOverlap == Loaded({"v1"}, MaxOverlap, {NoConfig})

\* One run in any window and under any settings file of the model.
InitBuild ==
    LoadedIn({"v1"}, MaxRuns, {NoConfig}, BuilderSettings, FolderLists, OsNames,
             {PhpFile})

\* Two views in the window, each with a file name and view-specific settings
\* of its own; one run.
InitViews ==
    LoadedIn(Views, MaxRuns, ViewConfigs, [{"fix_on_save"} -> BOOLEAN],
             {<<XApp>>}, {"posix"}, FileNames)

\* ------------------------------------------------------------------ strings
RECURSIVE LastSlash(_, _)
LastSlash(p, i) == IF i = 0 \/ p[i] = "/" THEN i ELSE LastSlash(p, i - 1)

\* os.path.basename
basename(p) == SubSeq(p, LastSlash(p, Len(p)) + 1, Len(p))

endswith(s, suffix) ==
    /\ Len(s) >= Len(suffix)
    /\ SubSeq(s, Len(s) - Len(suffix) + 1, Len(s)) = suffix

startswith(s, prefix) ==
    /\ Len(s) >= Len(prefix)
    /\ SubSeq(s, 1, Len(prefix)) = prefix

\* Does old occur in s at position i?
MatchAt(s, i, old) ==
    /\ i + Len(old) - 1 <= Len(s)
    /\ SubSeq(s, i, i + Len(old) - 1) = old

\* str.replace(old, new) for a non-empty old: every occurrence, found from
\* left to right without overlap, becomes new.
RECURSIVE ReplaceFrom(_, _, _, _)
ReplaceFrom(s, i, old, new) ==
    IF i > Len(s) THEN << >>
    ELSE IF MatchAt(s, i, old) THEN new \o ReplaceFrom(s, i + Len(old), old, new)
    ELSE <<s[i]>> \o ReplaceFrom(s, i + 1, old, new)

replace(s, old, new) == ReplaceFrom(s, 1, old, new)

\* Path(p).name for the POSIX paths of the model: the last component, the
\* slashes that end p left aside; empty for the root.
PathName(p) ==
    basename(SubSeq(p, 1, Max({i \in 1..Len(p) : p[i] # "/"} \cup {0})))

\* ---------------------------------------------------------- SettingsManager
\* SettingsManager.get: the active view's 'PHP_CBF' entry first, then the
\* global settings, then the default.
get(key, default) ==
    IF active_view # None /\ key \in DOMAIN php_cbf_config[active_view]
    THEN php_cbf_config[active_view][key]
    ELSE IF key \in DOMAIN global_settings THEN global_settings[key]
    ELSE default

\* SettingsManager.fix_on_save
fix_on_save == get("fix_on_save", FALSE)

\* What one SettingsManager.get call reads of the host: the settings of the
\* active view, when there is one.
GetReads == IF active_view # None THEN {"view_settings"} ELSE {}

\* ----------------------------------------------------------- CommandBuilder
\* Python truth value of a phpcs_standard setting.
Truthy(setting) ==
    CASE setting.type = "str" -> setting.str # << >>
      [] setting.type = "dict" -> DOMAIN setting.dict # {}
      [] OTHER -> TRUE

\* The folders of the window whose name is a key of the mapping.
FoldersIn(dict) ==
    {i \in 1..Len(folders) : PathName(folders[i]) \in DOMAIN dict}

\* CommandBuilder._resolve_standard; None is the empty string here, the
\* caller telling the two apart in no way (`if standard`).
_resolve_standard(standard_setting) ==
    IF standard_setting.type = "str" THEN standard_setting.str
    ELSE IF standard_setting.type = "dict"
    THEN IF FoldersIn(standard_setting.dict) # {}
         THEN standard_setting.dict[
                 PathName(folders[Min(FoldersIn(standard_setting.dict))])]
         ELSE IF DefaultKey \in DOMAIN standard_setting.dict
         THEN standard_setting.dict[DefaultKey]
         ELSE << >>
    ELSE << >>

\* CommandBuilder._add_php_executable; an absent php_path is None, the
\* empty string here.
_add_php_executable(args) ==
    IF get("php_path", << >>) # << >> THEN Append(args, get("php_path", << >>))
    ELSE IF os_name = "nt" THEN Append(args, PhpToken)
    ELSE args

\* CommandBuilder._add_phpcbf_path
_add_phpcbf_path(args) ==
    IF get("phpcbf_path", << >>) # << >> /\ folders # << >>
    THEN Append(args, replace(get("phpcbf_path", << >>), Placeholder, folders[1]))
    ELSE args

\* The tail of _add_coding_standard, for the resolved standard.
AddStandard(args, standard) ==
    IF standard # << >> /\ folders # << >>
    THEN Append(args, StandardFlag \o replace(standard, Placeholder, folders[1]))
    ELSE args

\* CommandBuilder._add_coding_standard
_add_coding_standard(args) ==
    IF ~Truthy(get("phpcs_standard", Str(PSR2))) THEN args
    ELSE AddStandard(args, _resolve_standard(get("phpcs_standard", Str(PSR2))))

\* CommandBuilder.build_command
build_command ==
    Append(_add_coding_standard(_add_phpcbf_path(_add_php_executable(<< >>))),
           StdinFlag)
       \o get("additional_args", << >>)

\* ----------------------------------------------------------- ProcessResult
\* Mutant of has_error: only the exit code ERROR counts as an error.
has_error_only_ERROR(result) == result.exit_code = ERROR

\* ProcessResult.has_error
has_error(result) == result.exit_code \notin {SUCCESS, FIXES_APPLIED}

\* ---------------------------------------------------------- LoadingAnimator
\* LoadingAnimator.start: the state of the animator after it.
AnimatorStart == [index |-> 0, is_running |-> TRUE]

\* LoadingAnimator.stop: the state of the animator after it.
AnimatorStop == [animator EXCEPT !.is_running = FALSE]

\* LoadingAnimator._animate, one firing of the timer.
_animate ==
    /\ animate_timers > 0
    /\ IF ~animator.is_running
       THEN /\ animate_timers' = animate_timers - 1
            /\ UNCHANGED <<animator, status>>
       ELSE /\ status' = <<RunningMessage, animation_chars[animator.index + 1]>>
            /\ animator' = [animator EXCEPT
                               !.index = (animator.index + 1) % Len(animation_chars)]
            /\ UNCHANGED animate_timers
    /\ UNCHANGED <<content, is_saving, php_cbf_config, file_name, active_view,
                   global_settings, runs, console, save_events, uncaught,
                   thread_reads, window_views, folders, os_name, started_by>>

\* ---------------------------------------------------------- PHPCBFProcessor
\* Mutant of process_file: the animation starts before the view is looked at.
process_file_animates_first(r) ==
    /\ animator' = AnimatorStart
    /\ animate_timers' = animate_timers + 1
    /\ IF active_view = None
       THEN runs' = [runs EXCEPT ![r] = Finished(runs[r], "aborted")]
       ELSE runs' = [runs EXCEPT ![r] =
                        [IdleRun EXCEPT !.phase = "thread",
                                        !.content = content[active_view],
                                        !.file_path = file_name[active_view],
                                        !.view0 = active_view,
                                        !.animated = TRUE]]

\* PHPCBFProcessor.process_file for run r: without an active view it returns
\* at once; else it takes the snapshot, starts the animation and the thread.
process_file(r) ==
    IF active_view = None
    THEN /\ runs' = [runs EXCEPT ![r] = Finished(runs[r], "aborted")]
         /\ UNCHANGED <<animator, animate_timers>>
    ELSE /\ runs' = [runs EXCEPT ![r] =
                        [IdleRun EXCEPT !.phase = "thread",
                                        !.content = content[active_view],
                                        !.file_path = file_name[active_view],
                                        !.view0 = active_view,
                                        !.animated = TRUE]]
         /\ animator' = AnimatorStart
         /\ animate_timers' = animate_timers + 1

\* PHPCBFProcessor._run_phpcbf, the body of the thread of run r: the command
\* is built from the settings, the process runs, and one callback is handed
\* to the main context.
_run_phpcbf(r) ==
    /\ runs[r].phase = "thread"
    /\ thread_reads' = thread_reads \cup GetReads
    /\ \/ \E out \in BufferTexts, code \in ExitCodes :
            runs' = [runs EXCEPT ![r].phase = "results",
                                 ![r].args = build_command,
                                 ![r].stdout = out,
                                 ![r].exit_code = code,
                                 ![r].callbacks = @ + 1]
       \/ \E e \in {"SpawnError", "EncodingError"} :
            runs' = [runs EXCEPT ![r].phase = "error",
                                 ![r].args = build_command,
                                 ![r].error = e,
                                 ![r].callbacks = @ + 1]
    /\ UNCHANGED <<content, is_saving, php_cbf_config, file_name, active_view,
                   global_settings, animator, animate_timers, status, console,
                   save_events, uncaught, window_views, folders, os_name, started_by>>

\* PhpCbfApplyChangesCommand.run: the whole buffer of view becomes text.
apply_changes(view, text) == [content EXCEPT ![view] = text]

\* What the three methods of _refresh_linter can meet.  Method 1 is the
\* window command; method 2 calls view.begin_edit() without the arguments
\* the host's View.begin_edit requires, so it always raises; method 3
\* imports SublimeLinter and calls lint.Linter.lint_all_views().
Method1Outcomes == {"ok", "raises"}

Method3Outcomes == {"ImportError", "no_lint", "ok", "raises"}

\* PHPCBFProcessor._refresh_linter: does an exception leave it?  Only the
\* ImportError of method 3 is caught there.
_refresh_linter(m1, m3) == m1 = "raises" /\ m3 = "raises"

\* Mutant of NoChangesNeeded: the exit code, not the diff, decides.
NoChangesByExitCode(original_content, result) == result.exit_code = SUCCESS

\* _process_results: `if not diff`, for the diff of the snapshot and stdout.
NoChangesNeeded(original_content, result) ==
    Diffs[original_content][result.stdout] = NoDiff

\* PHPCBFProcessor._handle_error: the status it sets.
_handle_error == ErrorStatus

\* PHPCBFProcessor._process_results, the callback of run r on the main context.
\* The save it triggers completes later, with a save-completion event, or
\* does not complete (a file that cannot be written, a save dialog that the
\* user dismisses): then no event follows.
_process_results(r) ==
    /\ runs[r].phase = "results"
    /\ animator' = AnimatorStop
    /\ LET run == runs[r]
           view == active_view
       IN  IF has_error(run)
           THEN /\ console' = console \cup {"stderr"}
                /\ status' = _handle_error
                /\ runs' = [runs EXCEPT ![r] = Finished(run, "errored")]
                /\ UNCHANGED <<content, is_saving, save_events, uncaught>>
           ELSE IF NoChangesNeeded(run.content, run)
           THEN /\ status' = NoChangesStatus
                /\ runs' = [runs EXCEPT ![r] = Finished(run, "noop")]
                /\ UNCHANGED <<content, is_saving, save_events, uncaught,
                               console>>
           ELSE IF view = None
           THEN /\ status' = EmptyStatus
                /\ runs' = [runs EXCEPT ![r] = Finished(run, "noview")]
                /\ UNCHANGED <<content, is_saving, save_events, uncaught,
                               console>>
           ELSE /\ content' = apply_changes(view, run.stdout)
                /\ status' = EmptyStatus
                /\ UNCHANGED console
                /\ IF fix_on_save
                   THEN /\ is_saving' = [is_saving EXCEPT ![view] = TRUE]
                        /\ \/ /\ Len(save_events[view]) < MaxSaveQ
                              /\ save_events' = [save_events EXCEPT
                                                    ![view] = Append(@, "programmatic")]
                           \/ save_events' = save_events
                        /\ runs' = [runs EXCEPT
                                       ![r] = [Finished(run, "mutated") EXCEPT
                                                  !.phase = "notify",
                                                  !.view = view,
                                                  !.mutations = @ + 1]]
                        /\ UNCHANGED uncaught
                   ELSE /\ \E m1 \in Method1Outcomes, m3 \in Method3Outcomes :
                              uncaught' = (uncaught \/ _refresh_linter(m1, m3))
                        /\ runs' = [runs EXCEPT
                                       ![r] = [Finished(run, "mutated") EXCEPT
                                                  !.mutations = @ + 1]]
                        /\ UNCHANGED <<is_saving, save_events>>
    /\ UNCHANGED <<php_cbf_config, file_name, active_view, global_settings,
                   animate_timers, thread_reads, window_views, folders, os_name, started_by>>

\* The callback that _run_phpcbf schedules when an exception reached it:
\* _handle_error alone.
HandleErrorCallback(r) ==
    /\ runs[r].phase = "error"
    /\ console' = console \cup {"exception"}
    /\ status' = _handle_error
    /\ runs' = [runs EXCEPT ![r] = Finished(runs[r], "exception")]
    /\ UNCHANGED <<content, is_saving, php_cbf_config, file_name, active_view,
                   global_settings, animator, animate_timers, save_events,
                   uncaught, thread_reads, window_views, folders, os_name, started_by>>

\* The _refresh_linter call that _process_results delays until the save.
RefreshLinterCallback(r) ==
    /\ runs[r].phase = "notify"
    /\ \E m1 \in Method1Outcomes, m3 \in Method3Outcomes :
          uncaught' = (uncaught \/ _refresh_linter(m1, m3))
    /\ runs' = [runs EXCEPT ![r] = Finished(runs[r], "mutated")]
    /\ UNCHANGED <<content, is_saving, php_cbf_config, file_name, active_view,
                   global_settings, animator, animate_timers, status, console,
                   save_events, thread_reads, window_views, folders, os_name, started_by>>

\* ----------------------------------------------------------------- commands
\* PhpCbfCommand.run, the command the user invokes.
PhpCbfCommand ==
    /\ IdleRuns # {}
    /\ process_file(Min(IdleRuns))
    /\ started_by' = [started_by EXCEPT ![Min(IdleRuns)] = "command"]
    /\ UNCHANGED <<content, is_saving, php_cbf_config, file_name, active_view,
                   global_settings, status, console, save_events, uncaught,
                   thread_reads, window_views, folders, os_name>>

\* ------------------------------------------------------ PhpCbfEventListener
\* Mutant of _should_auto_fix: the leading dot of the name is not looked at.
_should_auto_fix_dotfiles(view) ==
    /\ fix_on_save
    /\ file_name[view] # << >>
    /\ endswith(basename(file_name[view]), <<".", "p", "h", "p">>)

\* PhpCbfEventListener._should_auto_fix
_should_auto_fix(view) ==
    /\ fix_on_save
    /\ file_name[view] # << >>
    /\ endswith(basename(file_name[view]), <<".", "p", "h", "p">>)
    /\ ~startswith(basename(file_name[view]), <<".">>)

\* Mutant of SavingObserved: the flag is looked at only for a file that
\* would be fixed on save.
SavingObservedWhenFixing(view) == is_saving[view] /\ _should_auto_fix(view)

\* Mutant of SavingObserved: the flag is never looked at.
SavingNeverObserved(view) == FALSE

\* on_post_save: view.settings().get('phpcbf_is_saving', False)
SavingObserved(view) == is_saving[view]

\* PhpCbfEventListener.on_post_save for the oldest pending save of view; the
\* 'phpcbf' window command it runs is PhpcbfCommand.run, that is process_file.
\* The views of the model stay in their window: view.window() is the window.
on_post_save(view) ==
    /\ save_events[view] # << >>
    /\ save_events' = [save_events EXCEPT ![view] = Tail(@)]
    /\ IF SavingObserved(view)
       THEN /\ is_saving' = [is_saving EXCEPT ![view] = FALSE]
            /\ UNCHANGED <<runs, animator, animate_timers, started_by>>
       ELSE IF ~_should_auto_fix(view)
       THEN UNCHANGED <<is_saving, runs, animator, animate_timers, started_by>>
       ELSE /\ IdleRuns # {}
            /\ process_file(Min(IdleRuns))
            /\ started_by' = [started_by EXCEPT ![Min(IdleRuns)] = view]
            /\ UNCHANGED is_saving
    /\ UNCHANGED <<content, php_cbf_config, file_name, active_view,
                   global_settings, status, console, uncaught, thread_reads,
                   window_views, folders, os_name>>

\* -------------------------------------------------------------- environment
\* The user saves a view: the host will report the save with on_post_save.
UserSave(view) ==
    /\ view \in window_views
    /\ Len(save_events[view]) < MaxSaveQ
    /\ save_events' = [save_events EXCEPT ![view] = Append(@, "user")]
    /\ UNCHANGED <<content, is_saving, php_cbf_config, file_name, active_view,
                   global_settings, runs, animator, animate_timers, status,
                   console, uncaught, thread_reads, window_views, folders, os_name, started_by>>

\* The user types in the active view.
UserEdit(text) ==
    /\ active_view # None
    /\ content[active_view] # text
    /\ content' = [content EXCEPT ![active_view] = text]
    /\ UNCHANGED <<is_saving, php_cbf_config, file_name, active_view,
                   global_settings, runs, animator, animate_timers, status,
                   console, save_events, uncaught, thread_reads, window_views, folders, os_name, started_by>>

\* The user gives the focus to another view, or closes the last one.
SwitchView(view) ==
    /\ view \in window_views \cup {None}
    /\ active_view # view
    /\ active_view' = view
    /\ UNCHANGED <<content, is_saving, php_cbf_config, file_name,
                   global_settings, runs, animator, animate_timers, status,
                   console, save_events, uncaught, thread_reads, window_views, folders, os_name, started_by>>

\* The user changes fix_on_save in the settings file.
ChangeFixOnSave ==
    /\ global_settings' = [global_settings EXCEPT
                              !["fix_on_save"] = ~global_settings["fix_on_save"]]
    /\ UNCHANGED <<content, is_saving, php_cbf_config, file_name, active_view,
                   runs, animator, animate_timers, status, console,
                   save_events, uncaught, thread_reads, window_views, folders, os_name, started_by>>

Next ==
    \/ PhpCbfCommand
    \/ \E r \in DOMAIN runs : _run_phpcbf(r)
    \/ \E r \in DOMAIN runs : _process_results(r)
    \/ \E r \in DOMAIN runs : HandleErrorCallback(r)
    \/ \E r \in DOMAIN runs : RefreshLinterCallback(r)
    \/ _animate
    \/ \E v \in Views : on_post_save(v)
    \/ \E v \in Views : UserSave(v)
    \/ \E t \in BufferTexts : UserEdit(t)
    \/ \E v \in Views \cup {None} : SwitchView(v)
    \/ ChangeFixOnSave

Spec == Init /\ [][Next]_vars

\* Two overlapping runs on one view that keeps the focus, under settings
\* that stay as loaded; the timer of the animation is left aside.
NextOverlap ==
    \/ PhpCbfCommand
    \/ \E r \in DOMAIN runs : _run_phpcbf(r)
    \/ \E r \in DOMAIN runs : _process_results(r)
    \/ \E r \in DOMAIN runs : HandleErrorCallback(r)
    \/ \E r \in DOMAIN runs : RefreshLinterCallback(r)
    \/ \E v \in Views : on_post_save(v)
    \/ \E v \in Views : UserSave(v)
    \/ \E t \in BufferTexts : UserEdit(t)

SpecOverlap == InitOverlap /\ [][NextOverlap]_vars

\* The command and the thread that builds the command line, in every window
\* and under every settings file of the model.
NextBuild ==
    \/ PhpCbfCommand
    \/ \E r \in DOMAIN runs : _run_phpcbf(r)

SpecBuild == InitBuild /\ [][NextBuild]_vars

\* The runs and the saves of a window with two views, the focus moving
\* between them.
NextViews ==
    \/ PhpCbfCommand
    \/ \E r \in DOMAIN runs : _run_phpcbf(r)
    \/ \E r \in DOMAIN runs : _process_results(r)
    \/ \E r \in DOMAIN runs : HandleErrorCallback(r)
    \/ \E r \in DOMAIN runs : RefreshLinterCallback(r)
    \/ \E v \in Views : on_post_save(v)
    \/ \E v \in Views : UserSave(v)
    \/ \E v \in Views \cup {None} : SwitchView(v)

SpecViews == InitViews /\ [][NextViews]_vars

\* No run has been started and no save is pending.
Untouched ==
    /\ \A r \in DOMAIN runs : runs[r].phase = "idle"
    /\ \A v \in Views : save_events[v] = << >>

\* The user saves once, or runs the command once, in a window where nothing
\* has run yet, and from then on only watches.
FirstSave(view) == Untouched /\ UserSave(view)

FirstCommand == Untouched /\ PhpCbfCommand

NextOneSave ==
    \/ \E v \in Views : FirstSave(v)
    \/ FirstCommand
    \/ \E v \in Views : on_post_save(v)
    \/ \E r \in DOMAIN runs : _run_phpcbf(r)
    \/ \E r \in DOMAIN runs : _process_results(r)
    \/ \E r \in DOMAIN runs : HandleErrorCallback(r)
    \/ \E r \in DOMAIN runs : RefreshLinterCallback(r)
    \/ _animate

\* The host runs every callback handed to set_timeout and reports every
\* save; the formatter process of every run ends or fails to start.
FairOneSave ==
    /\ \A r \in 1..MaxOverlap : WF_vars(r \in DOMAIN runs /\ _run_phpcbf(r))
    /\ \A r \in 1..MaxOverlap : WF_vars(r \in DOMAIN runs /\ _process_results(r))
    /\ \A r \in 1..MaxOverlap : WF_vars(r \in DOMAIN runs /\ HandleErrorCallback(r))
    /\ \A r \in 1..MaxOverlap : WF_vars(r \in DOMAIN runs /\ RefreshLinterCallback(r))
    /\ \A v \in Views : WF_vars(on_post_save(v))

\* One view, room for two runs, any file name and any fix_on_save.
InitOneSave ==
    LoadedIn({"v1"}, MaxOverlap, ViewConfigs, [{"fix_on_save"} -> BOOLEAN],
             {<<XApp>>}, {"posix"}, FileNames)

SpecOneSave == InitOneSave /\ [][NextOneSave]_vars /\ FairOneSave

\* ------------------------------------------------------------------ steps
\* The step in which the _process_results callback of run r runs.
ResultsStep(r) == runs[r].phase = "results" /\ runs'[r].phase # "results"

\* The step in which the error callback of run r runs.
ErrorStep(r) == runs[r].phase = "error" /\ runs'[r].phase # "error"

\* The step in which the thread of run r ends.
ThreadStep(r) == runs[r].phase = "thread" /\ runs'[r].phase # "thread"

\* The step in which process_file is called for run r.
StartStep(r) == runs[r].phase = "idle" /\ runs'[r].phase # "idle"

\* The step in which on_post_save handles the oldest pending save of view.
SaveEventStep(view) ==
    save_events[view] # << >> /\ save_events'[view] = Tail(save_events[view])

\* ----------------------------------------------------------------- claims
\* C1: when the formatter process has completed, exit codes 0 and 1 are not
\* errors; with any other exit code the run ends as an error and neither the
\* buffer nor the saving flag nor the pending saves change, whatever stdout is.
C1_ExitCodeContract ==
    [][\A r \in DOMAIN runs :
          ResultsStep(r) =>
             IF runs[r].exit_code \in {0, 1}
             THEN runs'[r].outcome # "errored" /\ status' # ErrorStatus
             ELSE /\ runs'[r].outcome = "errored"
                  /\ status' = ErrorStatus
                  /\ content' = content
                  /\ is_saving' = is_saving
                  /\ save_events' = save_events]_vars

\* C1 witness: a run ended as an error after its process completed.
C1_Witness ==
    \E r \in DOMAIN runs : runs[r].outcome = "errored" /\ status = ErrorStatus

\* C2: when stdout equals the snapshot and the exit code is 0 or 1, the diff
\* is absent and the run changes no buffer, sets no saving flag and triggers
\* no save.
C2_EqualOutputIsNoOp ==
    [][\A r \in DOMAIN runs :
          (ResultsStep(r) /\ runs[r].stdout = runs[r].content
             /\ runs[r].exit_code \in {0, 1}) =>
             /\ create_diff(runs[r].content, runs[r].stdout) = NoDiff
             /\ runs'[r].outcome = "noop"
             /\ runs'[r].mutations = 0
             /\ content' = content
             /\ is_saving' = is_saving
             /\ save_events' = save_events]_vars

\* C2 witness: a run ended as a no-op while fix_on_save was enabled.
C2_Witness ==
    \E r \in DOMAIN runs :
       runs[r].outcome = "noop" /\ status = NoChangesStatus /\ fix_on_save

\* C3: a run that completes without error and whose stdout differs in any
\* way from the snapshot leaves exactly stdout in the buffer of the view it
\* was started on (stated for the runs that find that view still active).
C3_DifferentOutputReplacesBuffer ==
    [][\A r \in DOMAIN runs :
          (ResultsStep(r) /\ runs[r].exit_code \in {0, 1}
             /\ runs[r].stdout # runs[r].content
             /\ active_view = runs[r].view0) =>
             content'[runs[r].view0] = runs[r].stdout]_vars

\* C4: the first save-completion event after the saving flag is set clears
\* it, whatever fix_on_save and the file name are; after every
\* save-completion event of a view its flag is clear, so two events in a row
\* never both see it set.
C4_FlagClearedByFirstSaveEvent ==
    [][\A v \in Views : SaveEventStep(v) => ~is_saving'[v]]_vars

\* C4 witness: a run set the flag and triggered a save, fix_on_save was then
\* disabled, and the save-completion event has cleared the flag.
C4_Witness ==
    \E r \in DOMAIN runs :
       /\ runs[r].phase = "notify"
       /\ save_events[runs[r].view] = << >>
       /\ ~is_saving[runs[r].view]
       /\ ~fix_on_save

\* C5: the save-completion event of every programmatic save finds the saving
\* flag set, clears it and starts no run.
C5_ProgrammaticSaveStartsNoRun ==
    [][\A v \in Views :
          (SaveEventStep(v) /\ Head(save_events[v]) = "programmatic") =>
             is_saving[v] /\ ~is_saving'[v] /\ runs' = runs]_vars

\* C6: a run that ends with a spawn error, an encoding error or an error
\* exit code leaves the buffer, the saving flag and the pending saves as they
\* were, reports the error status, and leaves the animation stopped as a
\* successful run does.
C6_FailedRunLeavesNoTrace ==
    [][\A r \in DOMAIN runs :
          (ErrorStep(r) \/ (ResultsStep(r) /\ runs[r].exit_code \notin {0, 1})) =>
             /\ content' = content
             /\ is_saving' = is_saving
             /\ save_events' = save_events
             /\ status' = ErrorStatus
             /\ ~animator'.is_running]_vars

\* C7: no exception leaves the notification step of a run, and after the
\* step the buffer still holds the stdout the run wrote.
C7_NotificationFailureSwallowed ==
    [][\A r \in DOMAIN runs :
          (runs[r].phase \in {"results", "notify"}
             /\ runs'[r].phase = "done" /\ runs'[r].outcome = "mutated") =>
             /\ uncaught' = uncaught
             /\ IF runs[r].phase = "results"
                THEN content'[active_view] = runs[r].stdout
                ELSE content' = content]_vars

\* C8: once every run that started the animation has reached its terminal
\* outcome, the animation is stopped.
C8_AnimationStopsWithRun ==
    (/\ \A r \in DOMAIN runs : ~InFlight(r)
     /\ \E r \in DOMAIN runs : runs[r].animated)
        => ~animator.is_running

\* C9: a run mutates the buffer at most once, and exactly once when its exit
\* code is 0 or 1, its diff is not empty and a view is active; its thread
\* schedules exactly one callback, result processing or error handling; a
\* run started without an active view starts no animation and no thread and
\* mutates nothing.
C9_OneMutationOneCallback ==
    [][\A r \in DOMAIN runs :
          /\ runs'[r].mutations <= 1
          /\ runs'[r].callbacks <= 1
          /\ runs[r].phase \notin {"idle", "thread"} =>
                runs'[r].callbacks = runs[r].callbacks
          /\ ResultsStep(r) =>
                IF /\ runs[r].exit_code \in {0, 1}
                   /\ splitlines(runs[r].content) # splitlines(runs[r].stdout)
                   /\ active_view # None
                THEN runs'[r].mutations = 1
                       /\ content' = [content EXCEPT ![active_view] = runs[r].stdout]
                ELSE runs'[r].mutations = 0 /\ content' = content
          /\ ThreadStep(r) =>
                runs'[r].callbacks = 1 /\ runs'[r].phase \in {"results", "error"}
          /\ StartStep(r) =>
                IF active_view = None
                THEN /\ runs'[r].phase = "done"
                     /\ runs'[r].callbacks = 0
                     /\ ~runs'[r].animated
                     /\ animator' = animator
                     /\ animate_timers' = animate_timers
                     /\ content' = content
                ELSE runs'[r].phase = "thread" /\ runs'[r].animated]_vars

\* C9 witness: a run was started without an active view and ended at once.
C9_Witness ==
    \E r \in DOMAIN runs :
       runs[r].outcome = "aborted" /\ ~runs[r].animated /\ animate_timers = 0

\* C10: the formatter thread reads nothing of the view: neither its buffer
\* nor its settings.
C10_ThreadTouchesNoViewState == thread_reads = {}

\* The phpcs_standard setting and the standard it resolves to as C11 puts
\* it: a plain string verbatim; for a mapping the value of the first project
\* folder whose base name is a key, else the value of _default, else nothing.
StandardSetting == get("phpcs_standard", Str(PSR2))

NamedFolders ==
    {i \in 1..Len(folders) : basename(folders[i]) \in DOMAIN StandardSetting.dict}

ResolvedStandard ==
    CASE StandardSetting.type = "str" -> StandardSetting.str
      [] StandardSetting.type = "dict" /\ NamedFolders # {} ->
            StandardSetting.dict[
               basename(folders[CHOOSE i \in NamedFolders :
                                   \A j \in NamedFolders : i <= j])]
      [] StandardSetting.type = "dict" /\ NamedFolders = {}
            /\ DefaultKey \in DOMAIN StandardSetting.dict ->
            StandardSetting.dict[DefaultKey]
      [] OTHER -> << >>

\* A value after placeholder substitution: the first project folder for
\* every ${folder}, the value as it is in a window without project folders.
Substituted(value) ==
    IF folders = << >> THEN value ELSE replace(value, Placeholder, folders[1])

\* The elements of a command vector.
Elements(args) == {args[i] : i \in DOMAIN args}

\* C11: the command built by a run holds --standard=<value> for the value the
\* standard resolves to whenever that value is not empty, in every window,
\* and holds no --standard argument when the standard resolves to nothing.
C11_StandardEmitted ==
    [][\A r \in DOMAIN runs :
          ThreadStep(r) =>
             IF ResolvedStandard # << >>
             THEN StandardFlag \o Substituted(ResolvedStandard)
                     \in Elements(runs'[r].args)
             ELSE \A a \in Elements(runs'[r].args) : ~startswith(a, StandardFlag)]_vars

\* C11 in the windows that have a project folder.
C11_StandardEmittedInProject ==
    [][\A r \in DOMAIN runs :
          (ThreadStep(r) /\ folders # << >>) =>
             IF ResolvedStandard # << >>
             THEN StandardFlag \o Substituted(ResolvedStandard)
                     \in Elements(runs'[r].args)
             ELSE \A a \in Elements(runs'[r].args) : ~startswith(a, StandardFlag)]_vars

\* The configured formatter path, empty when there is none.
FormatterPath == get("phpcbf_path", << >>)

\* C12: a configured formatter path is in the command built by a run, with
\* every ${folder} replaced by the first project folder when the window has
\* project folders, and as configured, the token left in it, when it has none.
C12_FormatterPathKept ==
    [][\A r \in DOMAIN runs :
          (ThreadStep(r) /\ FormatterPath # << >>) =>
             /\ Substituted(FormatterPath) \in Elements(runs'[r].args)
             /\ folders # << >> =>
                   \A i \in DOMAIN Substituted(FormatterPath) :
                      ~MatchAt(Substituted(FormatterPath), i, Placeholder)
             /\ folders = << >> => FormatterPath \in Elements(runs'[r].args)]_vars

\* C12 in the windows that have a project folder.
C12_FormatterPathInProject ==
    [][\A r \in DOMAIN runs :
          (ThreadStep(r) /\ FormatterPath # << >> /\ folders # << >>) =>
             /\ replace(FormatterPath, Placeholder, folders[1])
                   \in Elements(runs'[r].args)
             /\ \A i \in DOMAIN Substituted(FormatterPath) :
                   ~MatchAt(Substituted(FormatterPath), i, Placeholder)]_vars

\* The command vector as C13 lists it.
InterpreterPart ==
    IF get("php_path", << >>) # << >> THEN <<get("php_path", << >>)>>
    ELSE IF os_name = "nt" THEN <<PhpToken>>
    ELSE << >>

FormatterPart ==
    IF FormatterPath # << >> THEN <<Substituted(FormatterPath)>> ELSE << >>

StandardPart ==
    IF ResolvedStandard # << >>
    THEN <<StandardFlag \o Substituted(ResolvedStandard)>>
    ELSE << >>

ListedCommand ==
    InterpreterPart \o FormatterPart \o StandardPart \o <<StdinFlag>>
       \o get("additional_args", << >>)

\* C13: in every window and under every configuration the command built by
\* a run is the interpreter part, the formatter path if configured, the
\* --standard argument if a standard resolves, one "-", then the extra
\* arguments in configured order.
C13_CommandVectorOrder ==
    [][\A r \in DOMAIN runs :
          ThreadStep(r) => runs'[r].args = ListedCommand]_vars

\* C13 in the windows that have a project folder.
C13_CommandVectorInProject ==
    [][\A r \in DOMAIN runs :
          (ThreadStep(r) /\ folders # << >>) => runs'[r].args = ListedCommand]_vars

\* The file name test of C14: the base name ends with ".php", in this case,
\* and does not start with ".".
EligibleName(name) ==
    /\ endswith(basename(name), <<".", "p", "h", "p">>)
    /\ ~startswith(basename(name), <<".">>)

\* A run was started in this step: process_file was called for it.
RunStarted == \E r \in DOMAIN runs : StartStep(r)

\* C14: a save-completion event of a view whose saving flag is not set starts
\* a new run if and only if fix_on_save is enabled and the saved file's base
\* name ends with ".php" and does not start with "."; every other such save
\* starts nothing and changes no state.
C14_SaveStartsRunIffEligible ==
    [][\A v \in Views :
          (SaveEventStep(v) /\ ~is_saving[v]) =>
             IF fix_on_save /\ EligibleName(file_name[v])
             THEN RunStarted
             ELSE /\ runs' = runs
                  /\ UNCHANGED <<content, is_saving, animator, animate_timers,
                                 status, console, active_view>>]_vars

\* C14 witness: the save of /p/a.php, its view's flag not set and
\* fix_on_save enabled, has started a run.
C14_Witness ==
    \E r \in DOMAIN runs :
       /\ started_by[r] \in Views
       /\ file_name[started_by[r]] = PhpFile
       /\ ~is_saving[started_by[r]]
       /\ fix_on_save
       /\ runs[r].phase = "thread"

\* The steps of one run in the order of the code: start (snapshot, animation,
\* thread), process, result processing (animation stop, exit code, diff,
\* mutation, flag, save), notification.
PhaseOrder ==
    { <<"idle", "thread">>, <<"idle", "done">>, <<"thread", "results">>,
      <<"thread", "error">>, <<"error", "done">>, <<"results", "done">>,
      <<"results", "notify">>, <<"notify", "done">> }

\* The step in which the delayed notification of run r runs.
NotifyStep(r) == runs[r].phase = "notify" /\ runs'[r].phase # "notify"

\* What C15 says of a step of run r, the order of save and notification aside.
StepInOrder(r) ==
    /\ runs'[r].phase # runs[r].phase =>
          <<runs[r].phase, runs'[r].phase>> \in PhaseOrder
    /\ StartStep(r) /\ runs'[r].phase = "thread" =>
          /\ runs'[r].content = content[active_view]
          /\ animator'.is_running
    /\ ResultsStep(r) => ~animator'.is_running
    /\ ResultsStep(r) /\ runs'[r].phase = "notify" =>
          /\ runs'[r].mutations = 1
          /\ is_saving'[runs'[r].view]
          /\ save_events'[runs'[r].view] \in
                { Append(save_events[runs'[r].view], "programmatic"),
                  save_events[runs'[r].view] }
    /\ ResultsStep(r) /\ runs'[r].mutations = 1 /\ ~fix_on_save =>
          /\ runs'[r].phase = "done"
          /\ save_events' = save_events
    /\ NotifyStep(r) => runs[r].mutations = 1

\* The save that run r triggered has completed: its event has been handled.
SaveCompleted(r) ==
    \A i \in DOMAIN save_events[runs[r].view] :
       save_events[runs[r].view][i] # "programmatic"

\* C15: the steps of one run happen in order, without overlap: snapshot and
\* animation start, process, animation stop, exit-code check, diff,
\* mutation, then with fix_on_save the flag and the save, and the
\* notification only after the save has completed; without fix_on_save the
\* notification at once; the notification never precedes the mutation.
C15_StepsInOrder ==
    [][\A r \in DOMAIN runs :
          /\ StepInOrder(r)
          /\ NotifyStep(r) => SaveCompleted(r)]_vars

\* C15 without the order of the save's completion and the notification.
C15_StepsInOrderSaveAside ==
    [][\A r \in DOMAIN runs : StepInOrder(r)]_vars

\* Run r waits for its process or for the callback that ends it: its
\* animation is due to run.
Pending(r) == runs[r].phase \in {"thread", "results", "error"}

\* The step in which the callback that ends the wait of run r runs.
CompletionStep(r) == ResultsStep(r) \/ ErrorStep(r)

\* C16: when one of two runs in flight for the same view completes, nothing
\* of the other, still pending run changes: its snapshot and its record stay
\* as they were and its animation keeps running.
C16_RunsShareOnlyTheBuffer ==
    [][\A r1, r2 \in DOMAIN runs :
          (r1 # r2 /\ CompletionStep(r1) /\ Pending(r2)
             /\ runs[r1].view0 = runs[r2].view0 /\ animator.is_running) =>
             /\ runs'[r2] = runs[r2]
             /\ animator'.is_running]_vars

\* C16 for the snapshots alone: the completion of a run leaves the record of
\* the other pending run, its snapshot with it, as it was.
C16_SnapshotsApart ==
    [][\A r1, r2 \in DOMAIN runs :
          (r1 # r2 /\ CompletionStep(r1) /\ Pending(r2)) =>
             runs'[r2] = runs[r2]]_vars

\* C17: the baseline of a run's diff is its snapshot, not the buffer at
\* completion: whatever edits the buffer has met since the run started, a run
\* without error whose stdout equals its snapshot leaves the buffer as it
\* is, and one whose stdout differs from its snapshot makes the whole buffer
\* its stdout, so that of two overlapping runs the one processed last decides.
C17_SnapshotIsBaseline ==
    [][\A r \in DOMAIN runs :
          (ResultsStep(r) /\ runs[r].exit_code \in {0, 1}
             /\ active_view = runs[r].view0) =>
             IF runs[r].stdout = runs[r].content
             THEN content' = content
             ELSE content'[runs[r].view0] = runs[r].stdout]_vars

\* C17 with the snapshot and stdout compared line by line, as create_diff
\* compares them.
C17_SnapshotLinesAreBaseline ==
    [][\A r \in DOMAIN runs :
          (ResultsStep(r) /\ runs[r].exit_code \in {0, 1}
             /\ active_view = runs[r].view0) =>
             IF splitlines(runs[r].stdout) = splitlines(runs[r].content)
             THEN content' = content
             ELSE content'[runs[r].view0] = runs[r].stdout]_vars

\* The terminal outcomes of a run: mutated and notified; no-op (nothing to
\* change, or no view to start on or to write to); errored (an error exit
\* code, or an exception in the thread).
Outcomes == {"mutated", "noop", "aborted", "noview", "errored", "exception"}

\* The runs that process_file has been called for.
StartedRuns == {r \in DOMAIN runs : runs[r].phase # "idle"}

\* C18: the process of every run ending, every started run reaches one
\* terminal outcome, keeps it, and is no longer in flight; and one save by
\* the user (or one use of the command), with room for more runs, leads to
\* one run at most, the programmatic save of that run starting no further run.
C18_RunsEndAndSaveDoesNotCycle ==
    /\ \A r \in 1..MaxOverlap :
          (r \in DOMAIN runs /\ InFlight(r)) ~>
             (runs[r].phase = "done" /\ runs[r].outcome \in Outcomes)
    /\ [][\A r \in DOMAIN runs :
             runs[r].outcome # "none" => runs'[r].outcome = runs[r].outcome]_vars
    /\ [](Cardinality(StartedRuns) <= 1)

\* C18 witness: the run that the user's save started has replaced the
\* buffer and saved it, the save-completion event of that save has been
\* handled, and no other run was started.
C18_Witness ==
    \E r \in DOMAIN runs :
       /\ started_by[r] \in Views
       /\ runs[r].phase = "done"
       /\ runs[r].outcome = "mutated"
       /\ fix_on_save
       /\ StartedRuns = {r}
       /\ save_events = [v \in Views |-> << >>]
       /\ ~is_saving[started_by[r]]

\* Nothing of the views other than view changes in this step: neither
\* buffer nor saving flag nor pending saves.
OnlyTouches(view) ==
    \A v \in Views \ {view} :
       /\ content'[v] = content[v]
       /\ is_saving'[v] = is_saving[v]
       /\ save_events'[v] = save_events[v]

\* C19: a run takes its snapshot from the view whose save started it, and
\* the replacement content, the saving flag and the programmatic save go to
\* the view the snapshot was taken from and to no other, also when the
\* active view of the window has changed in between.
C19_RunTouchesOnlyItsView ==
    [][\A r \in DOMAIN runs :
          /\ (StartStep(r) /\ started_by'[r] \in Views
                /\ runs'[r].phase = "thread") =>
                runs'[r].view0 = started_by'[r]
          /\ ResultsStep(r) => OnlyTouches(runs[r].view0)]_vars

\* C19 for the runs whose view has the focus when the run starts and when
\* its result is processed.
C19_WhileViewKeepsFocus ==
    [][\A r \in DOMAIN runs :
          /\ (StartStep(r) /\ started_by'[r] = active_view
                /\ runs'[r].phase = "thread") =>
                runs'[r].view0 = started_by'[r]
          /\ (ResultsStep(r) /\ active_view = runs[r].view0) =>
                OnlyTouches(runs[r].view0)]_vars

\* A programmatic save of view has been triggered and its save-completion
\* event is still to come.
ProgrammaticSavePending(view) ==
    \E i \in DOMAIN save_events[view] : save_events[view][i] = "programmatic"

\* The step in which on_post_save handles a save that the user made.
UserSaveEventStep(view) ==
    SaveEventStep(view) /\ Head(save_events[view]) = "user"

\* C20: the saving flag of a view is set only while a programmatic save of
\* that view is pending; and the save-completion event of a save the user
\* made of an eligible file, fix_on_save enabled, always starts a run.
C20_FlagNeverStale ==
    /\ [](\A v \in Views : is_saving[v] => ProgrammaticSavePending(v))
    /\ [][\A v \in Views :
             (UserSaveEventStep(v) /\ fix_on_save /\ EligibleName(file_name[v]))
                => RunStarted]_vars

====
